---- MODULE Spec2Model ----
(***************************************************************************)
(* Model of save_prices_to_csv (src/main.py, lines 234-316): the merge of  *)
(* newly scraped fund prices into the backing CSV file.                    *)
(*                                                                         *)
(* Text is a sequence of one-character strings, so that parsing,           *)
(* formatting and Python's string ordering are computed, not assumed.      *)
(* A file is a header line (column names) and data lines (sequences of     *)
(* field texts); field texts of the model hold no delimiter, quote or line *)
(* break, so the csv module's lexing of a line is the split into fields.   *)
(* A float is the integer number of hundredths it stands for; the price    *)
(* texts of the model have at most two fractional digits.                  *)
(***************************************************************************)
EXTENDS Integers, Sequences, FiniteSets, TLC

(* ------------------------------ bounds --------------------------------- *)
MaxRows == 2        \* data lines of the initial backing file
MaxNew  == 1        \* records in fund_prices
MaxRuns == 2        \* invocations of the program

(* ------------------------------- text ---------------------------------- *)
\* characters in code-point order (str comparison of Python)
Alphabet ==
  << " ", "-", ".", "0", "1", "2", "3", "4", "5", "6", "7", "8", "9",
     "A", "B", "D", "F", "N", "O", "U", "a", "b", "c", "d", "e", "l", "w", "x" >>

Ord(c) == CHOOSE i \in 1..Len(Alphabet) : Alphabet[i] = c

IsDigit(c) == Ord(c) >= Ord("0") /\ Ord(c) <= Ord("9")

DigitVal(c) == Ord(c) - Ord("0")

AllDigits(t) == \A i \in 1..Len(t) : IsDigit(t[i])

RECURSIVE DigitsToNat(_)
DigitsToNat(t) ==
  IF t = <<>> THEN 0
  ELSE 10 * DigitsToNat(SubSeq(t, 1, Len(t) - 1)) + DigitVal(t[Len(t)])

DigitChar(n) == Alphabet[Ord("0") + n]

RECURSIVE NatToText(_)
NatToText(n) ==
  IF n < 10 THEN << DigitChar(n) >>
  ELSE Append(NatToText(n \div 10), DigitChar(n % 10))

RECURSIVE ZeroPad(_, _)
ZeroPad(t, width) == IF Len(t) >= width THEN t ELSE ZeroPad(<<"0">> \o t, width)

\* a < b for two str values: first differing character decides, a proper
\* prefix is smaller
RECURSIVE TextLess(_, _)
TextLess(a, b) ==
  IF b = <<>> THEN FALSE
  ELSE IF a = <<>> THEN TRUE
  ELSE IF a[1] # b[1] THEN Ord(a[1]) < Ord(b[1])
  ELSE TextLess(Tail(a), Tail(b))

(* ------------------------------- dates --------------------------------- *)
NoDate == <<>>      \* parse_date raised ValueError

IsLeap(y) == (y % 4 = 0 /\ y % 100 # 0) \/ y % 400 = 0

DaysInMonth(y, m) ==
  IF m = 2 THEN (IF IsLeap(y) THEN 29 ELSE 28)
  ELSE IF m \in {4, 6, 9, 11} THEN 30 ELSE 31

\* the %m directive: 1[0-2] | 0[1-9] | [1-9]
MonthVal(t) ==
  IF Len(t) \in {1, 2} /\ AllDigits(t) /\ DigitsToNat(t) \in 1..12
  THEN DigitsToNat(t) ELSE 0

\* the %d directive: 3[01] | [12]\d | 0[1-9] | [1-9] | " "[1-9]
DayVal(t) ==
  IF Len(t) \in {1, 2} /\ AllDigits(t) /\ DigitsToNat(t) \in 1..31
  THEN DigitsToNat(t)
  ELSE IF Len(t) = 2 /\ t[1] = " " /\ IsDigit(t[2]) /\ DigitVal(t[2]) >= 1
  THEN DigitVal(t[2]) ELSE 0

\* DateHelper.parse_date(text, "%Y-%m-%d"): a date <<y, m, d>>, or NoDate
ParseDate(t) ==
  IF Len(t) < 8 \/ Len(t) > 10 THEN NoDate
  ELSE IF ~(AllDigits(SubSeq(t, 1, 4)) /\ t[5] = "-") THEN NoDate
  ELSE LET dash == IF t[7] = "-" THEN 7 ELSE 8
           y == DigitsToNat(SubSeq(t, 1, 4))
           m == MonthVal(SubSeq(t, 6, dash - 1))
           d == DayVal(SubSeq(t, dash + 1, Len(t)))
       IN IF t[dash] # "-" \/ dash = Len(t) THEN NoDate
          ELSE IF y = 0 \/ m = 0 \/ d = 0 THEN NoDate
          ELSE IF d > DaysInMonth(y, m) THEN NoDate
          ELSE << y, m, d >>

\* date.strftime("%Y-%m-%d")
StrfTime(date) ==
  ZeroPad(NatToText(date[1]), 4) \o <<"-">> \o ZeroPad(NatToText(date[2]), 2)
    \o <<"-">> \o ZeroPad(NatToText(date[3]), 2)

DateLess(a, b) ==
  \/ a[1] < b[1]
  \/ a[1] = b[1] /\ a[2] < b[2]
  \/ a[1] = b[1] /\ a[2] = b[2] /\ a[3] < b[3]

DateGeq(a, b) == ~DateLess(a, b)

PrevDay(date) ==
  IF date[3] > 1 THEN << date[1], date[2], date[3] - 1 >>
  ELSE IF date[2] > 1
  THEN << date[1], date[2] - 1, DaysInMonth(date[1], date[2] - 1) >>
  ELSE << date[1] - 1, 12, 31 >>

\* DateHelper.today(), the day the program runs
Today == << 2025, 6, 12 >>

\* DateHelper.today_add_days(-days)
RECURSIVE TodaySubDays(_, _)
TodaySubDays(date, days) ==
  IF days = 0 THEN date ELSE TodaySubDays(PrevDay(date), days - 1)

(* ------------------------------- floats -------------------------------- *)
NoFloat == 0 - 1    \* float(text) raised ValueError

DotAt(t) == IF \E i \in 1..Len(t) : t[i] = "."
            THEN CHOOSE i \in 1..Len(t) : t[i] = "." /\ \A j \in 1..(i - 1) : t[j] # "."
            ELSE 0

\* float(text) for plain decimal text; the value in hundredths
ParseFloat(t) ==
  LET dot == DotAt(t)
      ip  == IF dot = 0 THEN t ELSE SubSeq(t, 1, dot - 1)
      fp  == IF dot = 0 THEN <<>> ELSE SubSeq(t, dot + 1, Len(t))
  IN IF ~(AllDigits(ip) /\ AllDigits(fp)) \/ Len(ip) + Len(fp) = 0 \/ Len(fp) > 2
     THEN NoFloat
     ELSE 100 * DigitsToNat(ip)
            + (IF Len(fp) = 1 THEN 10 * DigitsToNat(fp) ELSE DigitsToNat(fp))

\* str(float), what csv.writer writes for a float: the shortest text that
\* reads back as the same value, with at least one fractional digit
FormatFloat(v) ==
  LET ip == v \div 100
      fp == v % 100
  IN NatToText(ip) \o <<".">> \o
       (IF fp % 10 = 0 THEN << DigitChar(fp \div 10) >>
        ELSE << DigitChar(fp \div 10), DigitChar(fp % 10) >>)

(* ----------------------- the rows of the model -------------------------- *)
AAA == << "A", "A", "A" >>
BBB == << "B", "B", "B" >>
FundA == << "F", "A" >>
FundB == << "F", "B" >>
NewA == << "N", "e", "w" >>
OldA == << "O", "l", "d" >>
AUD == << "A", "U", "D" >>
D0608 == << "2", "0", "2", "5", "-", "0", "6", "-", "0", "8" >>
D0609 == << "2", "0", "2", "5", "-", "0", "6", "-", "0", "9" >>
D069  == << "2", "0", "2", "5", "-", "0", "6", "-", "9" >>
D0610 == << "2", "0", "2", "5", "-", "0", "6", "-", "1", "0" >>
P100 == << "1", ".", "0", "0" >>
P105 == << "1", ".", "0", "5" >>
P15  == << "1", ".", "5" >>
P200 == << "2", ".", "0", "0" >>
Pabc == << "a", "b", "c" >>

\* data lines an existing backing file may hold
RawRows ==
  { << AAA, D0609, FundA, AUD, P100 >>,        \* dated at the cutoff
    << AAA, D069, OldA, AUD, P15 >>,           \* same day, month-day not padded
    << AAA, D0610, FundA, AUD, P105 >>,
    << BBB, D0608, FundB, AUD, P200 >>,        \* older than the cutoff
    << BBB, D0610, FundB, AUD, Pabc >>,        \* Price not numeric
    << D0610, BBB, FundB, AUD, P200 >>,        \* Date before Symbol
    << BBB, D0610, FundB, AUD >>,              \* a field short
    << BBB, D0610, FundB, AUD, P200, <<"x">> >> }  \* a field too many

\* records the scraper may hand over (extract_fund_data): Date is a date,
\* Price a float
NewRecords ==
  { [Symbol |-> AAA, Date |-> << 2025, 6, 9 >>, Name |-> NewA, Currency |-> AUD, Price |-> 105],
    [Symbol |-> BBB, Date |-> << 2025, 6, 8 >>, Name |-> FundB, Currency |-> AUD, Price |-> 200] }

\* values of Files.DaysToSave the runs are checked with
DaysToSaveChoices == { 3 }

\* header lines an existing backing file may start with
Header == << "Symbol", "Date", "Name", "Currency", "Price" >>
HeaderSwapped == << "Date", "Symbol", "Name", "Currency", "Price" >>
HeaderRenamed == << "Symbol", "Date", "Name", "Currency", "Value" >>
Headers == { Header, HeaderSwapped, HeaderRenamed }

RECURSIVE SeqsUpTo(_, _)
SeqsUpTo(S, n) ==
  IF n = 0 THEN { <<>> }
  ELSE LET shorter == SeqsUpTo(S, n - 1)
       IN shorter \cup { Append(q, x) : q \in { r \in shorter : Len(r) = n - 1 }, x \in S }

NoFile == [exists |-> FALSE, header |-> <<>>, rows |-> <<>>]

\* the file right after open(csv_path, "w"): it exists and holds nothing
EmptyFile == [exists |-> TRUE, header |-> <<>>, rows |-> <<>>]

InitFiles ==
  { NoFile } \cup
  { [exists |-> TRUE, header |-> h, rows |-> rs] : h \in Headers, rs \in SeqsUpTo(RawRows, MaxRows) }

(* ----------------------------- csv.DictReader --------------------------- *)
NoneV == << "None" >>       \* Python's None as a field value (restval)
RestKey == "None"           \* Python's None as a dict key (restkey)

\* DictRow reading every line against the declared header
DictRowDeclared(fieldnames, line) ==
  LET n == Len(Header)
      keys == { Header[i] : i \in 1..n }
                \cup (IF Len(line) > n THEN { RestKey } ELSE {})
  IN [k \in keys |->
        IF k = RestKey /\ Len(line) > n THEN SubSeq(line, n + 1, Len(line))
        ELSE LET i == CHOOSE j \in 1..n : Header[j] = k
             IN IF i <= Len(line) THEN line[i] ELSE NoneV]

\* one row of csv.DictReader: dict(zip(fieldnames, line)), the fields a short
\* line lacks set to None, the surplus fields of a long line under key None
DictRow(fieldnames, line) ==
  LET n == Len(fieldnames)
      keys == { fieldnames[i] : i \in 1..n }
                \cup (IF Len(line) > n THEN { RestKey } ELSE {})
  IN [k \in keys |->
        IF k = RestKey /\ Len(line) > n THEN SubSeq(line, n + 1, Len(line))
        ELSE LET i == CHOOSE j \in 1..n : fieldnames[j] = k
             IN IF i <= Len(line) THEN line[i] ELSE NoneV]

\* InRetention with > for >=
InRetentionStrict(row_date, earliest_date) == DateLess(earliest_date, row_date)

\* line 267: if row_date >= earliest_date
InRetention(row_date, earliest_date) == DateGeq(row_date, earliest_date)

\* lines 264-272, the body of the load loop for one row.  status is
\*   "keep"      the row is appended to existing_data, Price now a float
\*   "old"       the row is dated before earliest_date and dropped
\*   "skip"      ValueError or KeyError: warning "Skipping invalid row"
\*   "TypeError" parse_date or float was handed None: not caught anywhere
\* parse_date is taken to be strptime(text, format).date(), raising ValueError
\* on text it cannot parse, which is what line 271 expects of it.  No row of
\* the model lacks its Date field.
LoadRow(row, earliest_date) ==
  IF "Date" \notin DOMAIN row THEN [status |-> "skip", row |-> row]
  ELSE IF row["Date"] = NoneV THEN [status |-> "TypeError", row |-> row]
  ELSE IF ParseDate(row["Date"]) = NoDate THEN [status |-> "skip", row |-> row]
  ELSE IF ~InRetention(ParseDate(row["Date"]), earliest_date)
  THEN [status |-> "old", row |-> row]
  ELSE IF "Price" \notin DOMAIN row THEN [status |-> "skip", row |-> row]
  ELSE IF row["Price"] = NoneV THEN [status |-> "TypeError", row |-> row]
  ELSE IF ParseFloat(row["Price"]) = NoFloat THEN [status |-> "skip", row |-> row]
  ELSE [status |-> "keep",
        row |-> [row EXCEPT !["Price"] = ParseFloat(row["Price"])]]

\* lines 263-277, the load loop from data line k on.  readFail = k means
\* reading line k raises OSError or csv.Error: the loop ends, the error is
\* logged, and the rows loaded so far stay in existing_data.
RECURSIVE LoadFrom(_, _, _, _, _, _)
LoadFrom(lines, k, fieldnames, earliest_date, readFail, acc) ==
  IF k > Len(lines) THEN [acc EXCEPT !.status = "ok"]
  ELSE IF readFail = k THEN [acc EXCEPT !.status = "read_error"]
  ELSE LET r == LoadRow(DictRow(fieldnames, lines[k]), earliest_date)
       IN IF r.status = "TypeError" THEN [acc EXCEPT !.status = "TypeError"]
          ELSE LoadFrom(lines, k + 1, fieldnames, earliest_date, readFail,
                 [acc EXCEPT !.data = IF r.status = "keep" THEN Append(@, r.row) ELSE @,
                             !.skipped = IF r.status = "skip" THEN @ + 1 ELSE @])

LoadExisting(f, earliest_date, readFail) ==
  LoadFrom(f.rows, 1, f.header, earliest_date, readFail,
           [status |-> "ok", data |-> <<>>, skipped |-> 0])

(* ------------------------------- merge ---------------------------------- *)
\* lines 281-288
FormatFund(fund) ==
  [Symbol |-> fund.Symbol, Date |-> StrfTime(fund.Date), Name |-> fund.Name,
   Currency |-> fund.Currency, Price |-> fund.Price]

FormatFunds(funds) == [i \in 1..Len(funds) |-> FormatFund(funds[i])]

\* lines 295 and 300: key = (row["Symbol"], row["Date"])
Key(row) == << row["Symbol"], row["Date"] >>

\* merged_data[key] = row on a dict kept as its values in insertion order:
\* a key already there keeps its place and gets the new value
DictPut(merged, row) ==
  IF \E i \in 1..Len(merged) : Key(merged[i]) = Key(row)
  THEN LET i == CHOOSE j \in 1..Len(merged) : Key(merged[j]) = Key(row)
       IN [merged EXCEPT ![i] = row]
  ELSE Append(merged, row)

RECURSIVE PutAll(_, _)
PutAll(merged, rows) ==
  IF rows = <<>> THEN merged ELSE PutAll(DictPut(merged, Head(rows)), Tail(rows))

\* lines 291-304
Merge(existing, formatted) == PutAll(PutAll(<<>>, existing), formatted)

\* tuple comparison of operator.itemgetter("Symbol", "Date")
KeyLess(a, b) ==
  \/ TextLess(a["Symbol"], b["Symbol"])
  \/ a["Symbol"] = b["Symbol"] /\ TextLess(a["Date"], b["Date"])

\* insert x behind every element that is not greater than it (stable)
RECURSIVE Insert(_, _)
Insert(sorted, x) ==
  IF sorted = <<>> THEN << x >>
  ELSE IF KeyLess(x, Head(sorted)) THEN << x >> \o sorted
  ELSE << Head(sorted) >> \o Insert(Tail(sorted), x)

RECURSIVE SortFrom(_, _)
SortFrom(sorted, rest) ==
  IF rest = <<>> THEN sorted ELSE SortFrom(Insert(sorted, Head(rest)), Tail(rest))

\* SortRows reversing the list instead of sorting it
RECURSIVE ReverseRows(_)
ReverseRows(rows) ==
  IF rows = <<>> THEN <<>> ELSE Append(ReverseRows(Tail(rows)), Head(rows))

\* line 305: final_data.sort(key=operator.itemgetter("Symbol", "Date"))
SortRows(rows) == SortFrom(<<>>, rows)

(* ----------------------------- csv.DictWriter --------------------------- *)
\* DictWriter._dict_to_list with extrasaction "raise": a key that is no
\* fieldname raises ValueError
WrongFields(row) == (DOMAIN row) \ { Header[i] : i \in 1..Len(Header) }

\* what csv.writer writes for one value: "" for None, str(float) for a
\* float, a str as it is
FieldText(col, value) ==
  IF col = "Price" THEN FormatFloat(value)
  ELSE IF value = NoneV THEN <<>>
  ELSE value

\* one written line, the columns in the order of header; a key the row
\* lacks is written as ""
EncodeRow(row) ==
  [i \in 1..Len(Header) |->
     IF Header[i] \in DOMAIN row THEN FieldText(Header[i], row[Header[i]]) ELSE <<>>]

(* ------------------------------- state --------------------------------- *)
VARIABLES
  file,           \* the backing file: [exists, header, rows]
  days_to_save,   \* Files.DaysToSave of the configuration
  pc,             \* "idle", "open", "header", "rows", "done" or "crashed"
  fund_prices,    \* the argument of save_prices_to_csv
  existing_data,  \* the rows loaded from the file
  final_data,     \* the merged and sorted rows
  next_row,       \* index into final_data of the next row writerows writes
  log,            \* the messages handed to the logger, as level:topic
  readFail,       \* the data line whose read raises OSError/csv.Error, 0: none
  committed,      \* the backing file as it was when the run started
  runs,           \* runs started so far
  prevPlain       \* the run before ran without error, with no new record

vars == << file, days_to_save, pc, fund_prices, existing_data, final_data,
           next_row, log, readFail, committed, runs, prevPlain >>

Init ==
  /\ file \in InitFiles
  /\ days_to_save \in DaysToSaveChoices
  /\ pc = "idle"
  /\ fund_prices = <<>>
  /\ existing_data = <<>>
  /\ final_data = <<>>
  /\ next_row = 1
  /\ log = {}
  /\ readFail = 0
  /\ committed = file
  /\ runs = 0
  /\ prevPlain = FALSE

\* line 248
EarliestDate == TodaySubDays(Today, days_to_save)

\* lines 243-305: load the file, merge the new records in, sort.  A
\* TypeError of the load loop is caught nowhere and ends the program.
StartRun(funds, fail) ==
  /\ pc = "idle"
  /\ runs < MaxRuns
  /\ LET ld == IF file.exists THEN LoadExisting(file, EarliestDate, fail)
               ELSE [status |-> "ok", data |-> <<>>, skipped |-> 0]
         lg == (IF file.exists THEN {} ELSE { "debug:notfound" })
               \cup (IF file.exists /\ file.header # Header THEN { "warning:header" } ELSE {})
               \cup (IF ld.skipped > 0 THEN { "warning:row" } ELSE {})
               \cup (IF ld.status = "read_error" THEN { "error:read" } ELSE {})
     IN /\ existing_data' = ld.data
        /\ log' = lg
        /\ IF ld.status = "TypeError"
           THEN /\ pc' = "crashed"
                /\ final_data' = <<>>
           ELSE /\ pc' = "open"
                /\ final_data' = SortRows(Merge(ld.data, FormatFunds(funds)))
  /\ fund_prices' = funds
  /\ readFail' = fail
  /\ committed' = file
  /\ runs' = runs + 1
  /\ next_row' = 1
  /\ UNCHANGED << file, days_to_save, prevPlain >>

\* line 308: open(csv_path, "w") truncates the file
OpenWrite ==
  /\ pc = "open"
  /\ file' = EmptyFile
  /\ pc' = "header"
  /\ UNCHANGED << days_to_save, fund_prices, existing_data, final_data, next_row,
                  log, readFail, committed, runs, prevPlain >>

\* line 308 raising OSError (no permission): lines 315-316
OpenFail ==
  /\ pc = "open"
  /\ pc' = "done"
  /\ log' = log \cup { "fatal:write" }
  /\ UNCHANGED << file, days_to_save, fund_prices, existing_data, final_data,
                  next_row, readFail, committed, runs, prevPlain >>

\* line 310
WriteHeader ==
  /\ pc = "header"
  /\ file' = [file EXCEPT !.header = Header]
  /\ pc' = "rows"
  /\ UNCHANGED << days_to_save, fund_prices, existing_data, final_data, next_row,
                  log, readFail, committed, runs, prevPlain >>

\* line 311, one row of writerows.  A row with a key that is no fieldname
\* raises ValueError, which lines 315-316 do not catch: the file is closed
\* with the rows written so far and the program ends.
WriteRow ==
  /\ pc = "rows"
  /\ next_row <= Len(final_data)
  /\ IF WrongFields(final_data[next_row]) # {}
     THEN /\ pc' = "crashed"
          /\ UNCHANGED << file, next_row >>
     ELSE /\ file' = [file EXCEPT !.rows = Append(@, EncodeRow(final_data[next_row]))]
          /\ next_row' = next_row + 1
          /\ pc' = pc
  /\ UNCHANGED << days_to_save, fund_prices, existing_data, final_data,
                  log, readFail, committed, runs, prevPlain >>

\* lines 310-311 raising OSError (disk full): lines 315-316
WriteFail ==
  /\ pc \in { "header", "rows" }
  /\ pc' = "done"
  /\ log' = log \cup { "fatal:write" }
  /\ UNCHANGED << file, days_to_save, fund_prices, existing_data, final_data,
                  next_row, readFail, committed, runs, prevPlain >>

\* line 313
FinishWrite ==
  /\ pc = "rows"
  /\ next_row > Len(final_data)
  /\ pc' = "done"
  /\ log' = log \cup { "detailed:saved" }
  /\ UNCHANGED << file, days_to_save, fund_prices, existing_data, final_data,
                  next_row, readFail, committed, runs, prevPlain >>

\* the write of this run completed (line 313 was reached)
Saved == pc = "done" /\ "detailed:saved" \in log

\* the run went through without a read error and with no new record
PlainRun == Saved /\ readFail = 0 /\ fund_prices = <<>>

\* save_prices_to_csv returns, or the program has ended: its locals are gone
Return ==
  /\ pc \in { "done", "crashed" }
  /\ pc' = "idle"
  /\ prevPlain' = PlainRun
  /\ fund_prices' = <<>>
  /\ existing_data' = <<>>
  /\ final_data' = <<>>
  /\ next_row' = 1
  /\ log' = {}
  /\ readFail' = 0
  /\ committed' = file
  /\ UNCHANGED << file, days_to_save, runs >>

\* main, lines 349-352: one invocation of the program, with the records the
\* scraper returned and the place, if any, where reading the file fails
Run ==
  \E funds \in SeqsUpTo(NewRecords, MaxNew), fail \in 0..Len(file.rows) :
    StartRun(funds, fail)

Next ==
  \/ Run
  \/ OpenWrite
  \/ OpenFail
  \/ WriteHeader
  \/ WriteRow
  \/ WriteFail
  \/ FinishWrite
  \/ Return

Spec == Init /\ [][Next]_vars

TypeOK ==
  /\ pc \in { "idle", "open", "header", "rows", "done", "crashed" }
  /\ runs \in 0..MaxRuns
  /\ next_row \in 1..(Len(final_data) + 1)

(* ------------------------- notions of the claims ------------------------ *)
\* a written data line: Symbol, Date, Name, Currency, Price in this order
SameDay(w, v) == w[1] = v[1] /\ ParseDate(w[2]) = ParseDate(v[2])

\* the existing line, read under the header of the file it came from
Old(k) == DictRow(committed.header, committed.rows[k])

\* line k of the existing file was read (no read error at or before it)
WasRead(k) == readFail = 0 \/ k < readFail

\* the row has a parsable Date and a numeric Price
Decodable(row) ==
  /\ { "Symbol", "Date", "Name", "Currency", "Price" } \subseteq DOMAIN row
  /\ row["Date"] # NoneV /\ ParseDate(row["Date"]) # NoDate
  /\ row["Price"] # NoneV /\ ParseFloat(row["Price"]) # NoFloat

\* a new record carries the text key of the written line
FromNew(w) ==
  \E i \in 1..Len(fund_prices) :
    fund_prices[i].Symbol = w[1] /\ StrfTime(fund_prices[i].Date) = w[2]

\* the last record of fund_prices with Symbol sym and Date date
LastNew(sym, date) ==
  fund_prices[CHOOSE i \in 1..Len(fund_prices) :
     /\ fund_prices[i].Symbol = sym /\ fund_prices[i].Date = date
     /\ \A j \in (i + 1)..Len(fund_prices) :
          ~(fund_prices[j].Symbol = sym /\ fund_prices[j].Date = date)]

TwoDecimals(t) ==
  /\ Len(t) >= 4
  /\ t[Len(t) - 2] = "."
  /\ AllDigits(SubSeq(t, 1, Len(t) - 3))
  /\ AllDigits(SubSeq(t, Len(t) - 1, Len(t)))

\* the complete new dataset of the run
NewFile ==
  [exists |-> TRUE, header |-> Header,
   rows |-> [i \in 1..Len(final_data) |-> EncodeRow(final_data[i])]]

(* ------------------------------- claims --------------------------------- *)
\* C1: after a merge that rewrote the file, no two data rows have the same
\* Symbol and the same calendar Date.
C1_Uniqueness ==
  Saved =>
    \A i, j \in 1..Len(file.rows) : i < j => ~SameDay(file.rows[i], file.rows[j])

\* C2: when a new record and a loaded existing row have the same Symbol and
\* calendar Date, exactly one row is written for that key and it equals the
\* new record (the last one of that key) in all five fields.
C2_ReplacementWins ==
  Saved =>
    \A n \in 1..Len(fund_prices), e \in 1..Len(existing_data) :
      ( /\ existing_data[e]["Symbol"] = fund_prices[n].Symbol
        /\ ParseDate(existing_data[e]["Date"]) = fund_prices[n].Date )
      => LET new == LastNew(fund_prices[n].Symbol, fund_prices[n].Date)
             hits == { i \in 1..Len(file.rows) :
                         /\ file.rows[i][1] = new.Symbol
                         /\ ParseDate(file.rows[i][2]) = new.Date }
         IN /\ Cardinality(hits) = 1
            /\ \A i \in hits :
                 /\ file.rows[i][3] = new.Name
                 /\ file.rows[i][4] = new.Currency
                 /\ ParseFloat(file.rows[i][5]) = new.Price

\* C3: at every point of the persist step the backing file holds either the
\* complete previous dataset or the complete new one, and after a failed
\* persist it holds the previous one.
C3_AtomicPersist ==
  pc # "idle" =>
    /\ file = committed \/ file = NewFile
    /\ "fatal:write" \in log => file = committed

\* C4, as claimed: after a merge every written row, from the existing file
\* or from the new records, has Date >= the retention cutoff.
C4_RetentionAllRows ==
  Saved =>
    \A i \in 1..Len(file.rows) : DateGeq(ParseDate(file.rows[i][2]), EarliestDate)

\* C4, amended: after a merge every written row whose key no new record
\* carries has Date >= the retention cutoff, and an existing row that was
\* read, decodes and is dated exactly at the cutoff is written.
C4_RetentionExistingRows ==
  Saved =>
    /\ \A i \in 1..Len(file.rows) :
         ~FromNew(file.rows[i]) => DateGeq(ParseDate(file.rows[i][2]), EarliestDate)
    /\ \A k \in 1..Len(committed.rows) :
         ( /\ WasRead(k)
           /\ Decodable(Old(k))
           /\ ParseDate(Old(k)["Date"]) = EarliestDate )
         => \E i \in 1..Len(file.rows) :
              file.rows[i][1] = Old(k)["Symbol"] /\ file.rows[i][2] = Old(k)["Date"]

\* C4 witness: a completed merge with a new record, that dropped an existing
\* row older than the cutoff and wrote an existing row dated at the cutoff.
C4_Witness ==
  /\ Saved
  /\ fund_prices # <<>>
  /\ \E k \in 1..Len(committed.rows) :
       /\ Decodable(Old(k))
       /\ DateLess(ParseDate(Old(k)["Date"]), EarliestDate)
  /\ \E i \in 1..Len(file.rows) :
       ~FromNew(file.rows[i]) /\ ParseDate(file.rows[i][2]) = EarliestDate

\* C5: the written rows are strictly increasing by Symbol (as text), then
\* Date (as a calendar date).
C5_StrictlyIncreasing ==
  Saved =>
    \A i \in 1..(Len(file.rows) - 1) :
      \/ TextLess(file.rows[i][1], file.rows[i + 1][1])
      \/ /\ file.rows[i][1] = file.rows[i + 1][1]
         /\ DateLess(ParseDate(file.rows[i][2]), ParseDate(file.rows[i + 1][2]))

\* C6: a row of the existing file that fails decoding (unparsable Date,
\* non-numeric Price, a missing or an extra field) is skipped with a warning
\* and never aborts the merge; the well-formed rows in the retention window
\* are loaded all the same.
C6_MalformedRowSkipped ==
  (pc # "idle" /\ committed.exists /\ committed.header = Header /\ readFail = 0) =>
    /\ pc # "crashed"
    /\ \A k \in 1..Len(committed.rows) :
         IF Len(committed.rows[k]) = Len(Header) /\ Decodable(Old(k))
         THEN DateGeq(ParseDate(Old(k)["Date"]), EarliestDate)
              => \E e \in 1..Len(existing_data) :
                   /\ Key(existing_data[e]) = Key(Old(k))
                   /\ existing_data[e]["Price"] = ParseFloat(Old(k)["Price"])
         ELSE /\ "warning:row" \in log
              /\ \A e \in 1..Len(existing_data) :
                   RestKey \notin DOMAIN existing_data[e]

\* C7: two merges in a row, both with no new record (and the same cutoff),
\* leave the same file: the second one writes what the first one wrote.
C7_Idempotent == (PlainRun /\ prevPlain) => file = committed

\* C7 witness: the second of two such merges has completed, on a file that
\* holds two rows.
C7_Witness == PlainRun /\ prevPlain /\ Len(file.rows) = 2

\* C8, as claimed: when the header of the existing file differs from the
\* declared one, a warning is logged and the rows are decoded by the
\* declared column order.
C8_DeclaredHeaderDecodes ==
  (pc \in { "open", "header", "rows", "done" } /\ committed.exists /\ committed.header # Header) =>
    /\ "warning:header" \in log
    /\ existing_data =
         LoadFrom(committed.rows, 1, Header, EarliestDate, readFail,
                  [status |-> "ok", data |-> <<>>, skipped |-> 0]).data

\* C8, amended: when the header of the existing file differs from the
\* declared one, a warning is logged and the rows are decoded by the header
\* found in the file: every loaded row holds, under each column name of the
\* file's header, the field at that name's position in its line, and every
\* line that decodes under the file's header within the retention window is
\* loaded.
C8_FileHeaderDecodes ==
  (pc \in { "open", "header", "rows", "done" } /\ committed.exists /\ committed.header # Header) =>
    /\ "warning:header" \in log
    /\ \A e \in 1..Len(existing_data) :
         \E k \in 1..Len(committed.rows) :
           \A i \in 1..Len(committed.header) :
             i <= Len(committed.rows[k]) =>
               /\ committed.header[i] \in DOMAIN existing_data[e]
               /\ IF committed.header[i] = "Price"
                  THEN existing_data[e]["Price"] = ParseFloat(committed.rows[k][i])
                  ELSE existing_data[e][committed.header[i]] = committed.rows[k][i]
    /\ \A k \in 1..Len(committed.rows) :
         \A d, p, s \in 1..Len(committed.header) :
           ( /\ committed.header[d] = "Date" /\ committed.header[p] = "Price"
             /\ committed.header[s] = "Symbol"
             /\ WasRead(k)
             /\ Len(committed.rows[k]) >= Len(committed.header)
             /\ ParseDate(committed.rows[k][d]) # NoDate
             /\ DateGeq(ParseDate(committed.rows[k][d]), EarliestDate)
             /\ ParseFloat(committed.rows[k][p]) # NoFloat )
           => \E e \in 1..Len(existing_data) :
                /\ existing_data[e]["Symbol"] = committed.rows[k][s]
                /\ existing_data[e]["Date"] = committed.rows[k][d]

\* C8 witness: a completed merge over a file whose header names the columns
\* in another order, with a row loaded from it.
C8_Witness ==
  Saved /\ committed.exists /\ committed.header = HeaderSwapped /\ existing_data # <<>>

\* C9: every Price written to the file has exactly two decimal places.
C9_PriceTwoDecimals ==
  Saved => \A i \in 1..Len(file.rows) : TwoDecimals(file.rows[i][5])

\* C10: a run that rewrites the file keeps every existing row that has a
\* parsable Date >= the cutoff and a numeric Price and whose key no new
\* record and no other existing row carries, with its Symbol, Date, Name,
\* Currency and Price value unchanged.
C10_OtherRowsKept ==
  Saved =>
    \A k \in 1..Len(committed.rows) :
      ( /\ Len(committed.rows[k]) = Len(committed.header)
        /\ Decodable(Old(k))
        /\ DateGeq(ParseDate(Old(k)["Date"]), EarliestDate)
        /\ \A n \in 1..Len(fund_prices) :
             ~( fund_prices[n].Symbol = Old(k)["Symbol"]
                /\ fund_prices[n].Date = ParseDate(Old(k)["Date"]) )
        /\ \A j \in 1..Len(committed.rows) :
             (j # k /\ "Symbol" \in DOMAIN Old(j) /\ "Date" \in DOMAIN Old(j))
             => ~( Old(j)["Symbol"] = Old(k)["Symbol"]
                   /\ ParseDate(Old(j)["Date"]) = ParseDate(Old(k)["Date"]) ) )
      => \E i \in 1..Len(file.rows) :
           /\ file.rows[i][1] = Old(k)["Symbol"]
           /\ file.rows[i][2] = Old(k)["Date"]
           /\ file.rows[i][3] = Old(k)["Name"]
           /\ file.rows[i][4] = Old(k)["Currency"]
           /\ ParseFloat(file.rows[i][5]) = ParseFloat(Old(k)["Price"])

====
